---- MODULE Spec2Model ----
(***************************************************************************)
(* Jellyfin -> Plex playlist migration.  The repository holds three        *)
(* implementations of the same run:                                        *)
(*   "A"  src/migrate_playlist.py      PlaylistMigrator.migrate_playlist   *)
(*   "B"  src/playlist_migrator.py     migrate_playlist                    *)
(*   "C"  src/migrate_playlist/cli.py  migrate_playlist                    *)
(* One run of one implementation is modelled as a state machine whose      *)
(* steps are the external calls of the run (source lookup, item fetch,     *)
(* per-item resolution against the destination libraries, createPlaylist)  *)
(* together with the code between them.                                    *)
(***************************************************************************)
EXTENDS Naturals, Sequences, FiniteSets

VARIABLES
    impl,           \* which implementation runs: "A", "B" or "C"
    dry_run,        \* A only: the dry_run argument
    libs,           \* destination snapshot: the libraries in catalog order
    pc,             \* position of the run
    playlists,      \* list returned by the source lookup, until the selection
    target,         \* Name of the selected source playlist, or NoPlaylist
    jellyfin_items, \* items of the selected playlist, in source order
    i,              \* index of the next source item of the loop
    plex_items,     \* matched destination items, as accumulated
    missing_items,  \* unmatched source items, as accumulated (A, B)
    matchedFrom,    \* history: source index of each element of plex_items
    report,         \* messages printed / logged, in order
    ret,            \* how migrate_playlist ended
    itemFetches,    \* history: number of getPlaylistItems requests
    sectionsCalls,  \* history: source index of each library.sections() call
    searchCalls,    \* history: <<source index, library index>> of each search
    createCalls,    \* history: createPlaylist requests, in order
    extError        \* history: the session or source request that raised

vars == <<impl, dry_run, libs, pc, playlists, target, jellyfin_items, i,
          plex_items, missing_items, matchedFrom, report, ret, itemFetches,
          sectionsCalls, searchCalls, createCalls, extError>>

(***************************************************************************)
(* Bounds of the model.                                                    *)
(***************************************************************************)
MaxItems == 2
MaxLibs == 2

Impls == {"A", "B", "C"}

(***************************************************************************)
(* Source catalog: playlist names.  "A" and "a" differ only in case.       *)
(***************************************************************************)
Names == {"A", "a", "b"}
playlist_name == "A"
NoPlaylist == "none"

Lower(n) == IF n = "A" THEN "a" ELSE n

PlaylistLists ==
    {<<>>} \cup {<<n>> : n \in Names} \cup {<<n, m>> : n \in Names, m \in Names}

(***************************************************************************)
(* Source items.  shape says how the item's JSON carries its path:         *)
(*   "noMS"      no MediaSources key          "emptyMS"   MediaSources []  *)
(*   "noPathKey" no Path key                  "emptyPath" Path is ""       *)
(*   "path"      Path is a non-empty string                                *)
(***************************************************************************)
Paths == {"p1", "p2"}
None == "None"

ItemKindsMS ==
    {[shape |-> s, path |-> ""] : s \in {"noMS", "emptyMS", "noPathKey", "emptyPath"}}
        \cup {[shape |-> "path", path |-> p] : p \in Paths}

ItemKindsTop ==
    {[shape |-> s, path |-> ""] : s \in {"noPathKey", "emptyPath"}}
        \cup {[shape |-> "path", path |-> p] : p \in Paths}

SeqsUpTo(S, n) == UNION {[1..k -> S] : k \in 0..n}

\* What the items endpoint queried by the implementation can answer.
ItemsResponses(im) ==
    IF im = "C" THEN SeqsUpTo(ItemKindsTop, MaxItems)
                ELSE SeqsUpTo(ItemKindsMS, MaxItems)

(***************************************************************************)
(* Destination libraries.  A library either raises when searched or holds  *)
(* entries; an entry is the set of file strings of its media parts.  A     *)
(* destination item is identified by its position <<library, entry>>.      *)
(***************************************************************************)
LibKinds ==
    {[fails |-> TRUE, entries |-> <<>>],
     [fails |-> FALSE, entries |-> <<{}>>],
     [fails |-> FALSE, entries |-> <<{"p1"}>>],
     [fails |-> FALSE, entries |-> <<{"p2"}>>]}

LibSeqs == SeqsUpTo(LibKinds, MaxLibs)

\* libraries in which a file is held by more than one entry
LibKindsMany ==
    {[fails |-> TRUE, entries |-> <<>>],
     [fails |-> FALSE, entries |-> <<{"p2"}>>],
     [fails |-> FALSE, entries |-> <<{"p2"}, {"p1"}, {"p1", "p2"}>>]}

LibSeqsMany == SeqsUpTo(LibKindsMany, MaxLibs)

\* libraries whose parts have files close to the path "p1" without being it:
\* "p1x" starts with it, "xp1" ends with it, "P1" differs in case only
LibKindsNear ==
    {[fails |-> TRUE, entries |-> <<>>],
     [fails |-> FALSE, entries |-> <<{"p1x", "xp1"}, {"P1"}>>],
     [fails |-> FALSE, entries |-> <<{"p1x"}, {"P1", "p1"}>>]}

LibSeqsNear == SeqsUpTo(LibKindsNear, MaxLibs)

NoItem == [lib |-> 0, ent |-> 0]

(***************************************************************************)
(* The file path of a source item, as each implementation reads it.        *)
(***************************************************************************)
FilePath(im, item) ==
    IF im = "C"
      THEN IF item.shape = "noPathKey" THEN None ELSE item.path
      ELSE IF item.shape \in {"noMS", "emptyMS"} THEN None
           ELSE IF item.shape = "noPathKey" THEN None
           ELSE item.path

NoFilePathLoose(fp) == fp = None

\* "not file_path": None and the empty string are both no path
NoFilePath(fp) == fp = None \/ fp = ""

(***************************************************************************)
(* Resolution of one path against the library snapshot.                    *)
(***************************************************************************)
\* file f is path p up to a prefix, a suffix or the case of its letters
Loosely(f, p) ==
    \/ f = p
    \/ <<f, p>> \in {<<"p1x", "p1">>, <<"xp1", "p1">>, <<"P1", "p1">>}

MatchInLibLoose(lib, path) ==
    LET hits == {e \in 1..Len(lib.entries) : \E f \in lib.entries[e] : Loosely(f, path)}
    IN  IF hits = {} THEN 0
        ELSE CHOOSE e \in hits : \A f \in hits : e <= f

MatchInLibLast(lib, path) ==
    LET hits == {e \in 1..Len(lib.entries) : path \in lib.entries[e]}
    IN  IF hits = {} THEN 0
        ELSE CHOOSE e \in hits : \A f \in hits : e >= f

\* index of the first entry of the library one of whose parts has the file,
\* 0 when there is none
MatchInLib(lib, path) ==
    LET hits == {e \in 1..Len(lib.entries) : path \in lib.entries[e]}
    IN  IF hits = {} THEN 0
        ELSE CHOOSE e \in hits : \A f \in hits : e <= f

RECURSIVE FindFromOnce(_, _)
FindFromOnce(l, path) ==
    IF l > Len(libs) \/ plex_items # <<>> THEN NoItem
    ELSE IF libs[l].fails THEN FindFromOnce(l + 1, path)
    ELSE IF MatchInLib(libs[l], path) # 0
           THEN [lib |-> l, ent |-> MatchInLib(libs[l], path)]
    ELSE FindFromOnce(l + 1, path)

RECURSIVE FindFromAbort(_, _)
FindFromAbort(l, path) ==
    IF l > Len(libs) THEN NoItem
    ELSE IF libs[l].fails THEN NoItem
    ELSE IF MatchInLib(libs[l], path) # 0
           THEN [lib |-> l, ent |-> MatchInLib(libs[l], path)]
    ELSE FindFromAbort(l + 1, path)

\* the loop over the sections from section l on: a section that raises is
\* skipped, the first section with a hit returns its first hit
RECURSIVE FindFrom(_, _)
FindFrom(l, path) ==
    IF l > Len(libs) THEN NoItem
    ELSE IF libs[l].fails THEN FindFrom(l + 1, path)
    ELSE IF MatchInLib(libs[l], path) # 0
           THEN [lib |-> l, ent |-> MatchInLib(libs[l], path)]
    ELSE FindFrom(l + 1, path)

\* the libraries that loop searches
RECURSIVE SearchedFrom(_, _)
SearchedFrom(l, path) ==
    IF l > Len(libs) THEN {}
    ELSE IF (~libs[l].fails) /\ MatchInLib(libs[l], path) # 0 THEN {l}
    ELSE {l} \cup SearchedFrom(l + 1, path)

Msg(m, k) == [msg |-> m, item |-> k]

(***************************************************************************)
(* State after construction: an implementation and its arguments, the      *)
(* destination snapshot, nothing read or written.                          *)
(***************************************************************************)
Start(snapshots) ==
    /\ impl \in Impls
    /\ dry_run \in BOOLEAN
    /\ (impl # "A" => dry_run = FALSE)
    /\ libs \in snapshots
    /\ pc = "auth"
    /\ playlists = <<>>
    /\ target = NoPlaylist
    /\ jellyfin_items = <<>>
    /\ i = 1
    /\ plex_items = <<>>
    /\ missing_items = <<>>
    /\ matchedFrom = <<>>
    /\ report = <<>>
    /\ ret = "running"
    /\ itemFetches = 0
    /\ sectionsCalls = <<>>
    /\ searchCalls = {}
    /\ createCalls = <<>>
    /\ extError = "none"

Init == Start(LibSeqs)

InitMany == Start(LibSeqsMany)

InitNear == Start(LibSeqsNear)

\* what main adds to the report once migrate_playlist has ended: A logs the
\* result or the error it caught, C's uncaught error prints a traceback
MainReport(im, r) ==
    CASE im = "A" /\ r = "True" -> <<Msg("completed", 0)>>
      [] im = "A" /\ r = "False" -> <<Msg("migration_failed", 0)>>
      [] im = "A" /\ r = "Unauthorized" -> <<Msg("auth_failed", 0)>>
      [] im = "A" /\ r = "Exception" -> <<Msg("main_error", 0)>>
      [] im = "C" /\ r = "Exception" -> <<Msg("traceback", 0)>>
      [] OTHER -> <<>>

\* the run ends: value returned, or the exception that left migrate_playlist
Finish(r, msgs) ==
    /\ pc' = "done"
    /\ ret' = r
    /\ report' = report \o msgs \o MainReport(impl, r)

(***************************************************************************)
(* Session establishment before the source lookup.  A: main builds the     *)
(* PlexClient, whose error main reports before exiting 1.  B: the two      *)
(* clients are built first in migrate_playlist and each calls sys.exit(1)  *)
(* when it fails.  C: the request for the source user id raises.           *)
(***************************************************************************)
AuthFailureIgnored(im) == IF im = "C" THEN "None" ELSE "True"

\* how the run ends when a session cannot be opened: main of A catches
\* Unauthorized, the clients of B call sys.exit(1), the error leaves C
AuthFailure(im) ==
    CASE im = "A" -> "Unauthorized"
      [] im = "B" -> "SystemExit"
      [] im = "C" -> "Exception"

Authenticate ==
    /\ pc = "auth"
    /\ \E r \in {"ok", "source_fail", "dest_fail"} :
        /\ impl = "A" => r # "source_fail"
        /\ impl = "C" => r # "dest_fail"
        /\ IF r = "ok"
             THEN /\ pc' = "start"
                  /\ UNCHANGED <<ret, report>>
             ELSE Finish(AuthFailure(impl),
                         IF impl # "B" THEN <<>>
                         ELSE <<Msg(IF r = "source_fail" THEN "source_auth_failed"
                                                         ELSE "dest_auth_failed", 0)>>)
        /\ extError' = IF r = "ok" THEN extError ELSE "auth"
    /\ UNCHANGED <<impl, dry_run, libs, playlists, target, jellyfin_items, i,
                   plex_items, missing_items, matchedFrom, itemFetches,
                   sectionsCalls, searchCalls, createCalls>>

(***************************************************************************)
(* Source lookup: the request that lists / searches the source playlists.  *)
(* A and C let a transport error leave migrate_playlist; B's               *)
(* search_playlists prints it and answers the empty list.                  *)
(***************************************************************************)
ReadFailureIgnored(im) == IF im = "C" THEN "None" ELSE "True"

\* how the run ends when a read of the source fails: the error leaves A and
\* C, B returns False on the empty list its client answers
ReadFailure(im) == IF im = "B" THEN "False" ELSE "Exception"

LookupFailureSilent == <<>>

\* B's search_playlists prints the error it swallows
LookupFailureReport == <<Msg("search_failed", 0)>>

LookupPlaylists ==
    /\ pc = "start"
    /\ \E pls \in PlaylistLists, fail \in BOOLEAN :
        /\ fail => pls = <<>>
        /\ IF fail /\ impl # "B"
             THEN /\ Finish(ReadFailure(impl), <<>>)
                  /\ UNCHANGED playlists
             ELSE /\ pc' = "select"
                  /\ playlists' = pls
                  /\ report' = IF fail THEN report \o LookupFailureReport
                                       ELSE report
                  /\ UNCHANGED ret
        /\ extError' = IF fail THEN "lookup" ELSE extError
    /\ UNCHANGED <<impl, dry_run, libs, target, jellyfin_items, i, plex_items,
                   missing_items, matchedFrom, itemFetches, sectionsCalls,
                   searchCalls, createCalls>>

\* index of the first playlist whose name equals the name ignoring case, or 0
FirstCI(pls, name) ==
    LET hits == {k \in 1..Len(pls) : Lower(pls[k]) = Lower(name)}
    IN  IF hits = {} THEN 0 ELSE CHOOSE k \in hits : \A m \in hits : k <= m

\* index of the first playlist whose name is the name, or 0
FirstExact(pls, name) ==
    LET hits == {k \in 1..Len(pls) : pls[k] = name}
    IN  IF hits = {} THEN 0 ELSE CHOOSE k \in hits : \A m \in hits : k <= m

SelectedFirst(im, pls, name) == IF pls = <<>> THEN 0 ELSE 1

\* the playlist each implementation selects from the list, 0 for none
Selected(im, pls, name) ==
    CASE im = "A" -> FirstCI(pls, name)
      [] im = "B" -> IF pls = <<>> THEN 0
                     ELSE IF FirstCI(pls, name) # 0 THEN FirstCI(pls, name)
                     ELSE 1
      [] im = "C" -> FirstExact(pls, name)

FoundMsg(n) == [msg |-> "found", item |-> 0, name |-> n]

FallbackMsg(n) == [msg |-> "fallback", item |-> 0, name |-> n]

SelectionReportSilent(im, pls, name) ==
    CASE im = "C" -> <<>>
      [] im = "B" /\ FirstCI(pls, name) = 0 -> <<>>
      [] OTHER -> <<FoundMsg(pls[Selected(im, pls, name)])>>

\* what is printed when a playlist is selected: A and B name the playlist
\* found, B says so when it is the first result instead of an exact match
SelectionReport(im, pls, name) ==
    CASE im = "C" -> <<>>
      [] im = "B" /\ FirstCI(pls, name) = 0 -> <<FallbackMsg(pls[Selected(im, pls, name)])>>
      [] OTHER -> <<FoundMsg(pls[Selected(im, pls, name)])>>

(***************************************************************************)
(* Selection of the playlist in the list and the not-found exit.  The list *)
(* is not read again after the selection.                                  *)
(***************************************************************************)
SelectPlaylist ==
    /\ pc = "select"
    /\ LET k == Selected(impl, playlists, playlist_name)
       IN  IF k = 0
             THEN /\ Finish(CASE impl = "C" -> "SystemExit" [] OTHER -> "False",
                            <<Msg(IF impl = "B" THEN "no_playlist" ELSE "not_found", 0)>>)
                  /\ UNCHANGED target
             ELSE /\ target' = playlists[k]
                  /\ pc' = "get_items"
                  /\ report' = report \o SelectionReport(impl, playlists, playlist_name)
                  /\ UNCHANGED ret
    /\ playlists' = <<>>
    /\ UNCHANGED <<extError, impl, dry_run, libs, jellyfin_items, i, plex_items,
                   missing_items, matchedFrom, itemFetches, sectionsCalls,
                   searchCalls, createCalls>>

(***************************************************************************)
(* Fetch of the items of the selected playlist.  A and C let an error      *)
(* leave migrate_playlist; B's get_playlist_items prints it and answers    *)
(* the empty list, and B returns False on an empty list.                   *)
(***************************************************************************)
GetItems ==
    /\ pc = "get_items"
    /\ itemFetches' = itemFetches + 1
    /\ \E its \in ItemsResponses(impl), fail \in BOOLEAN :
        /\ fail => its = <<>>
        /\ extError' = IF fail THEN "items" ELSE extError
        /\ CASE fail /\ impl # "B" ->
                  /\ Finish(ReadFailure(impl), <<>>)
                  /\ UNCHANGED jellyfin_items
             [] impl = "B" /\ its = <<>> ->
                  /\ Finish(ReadFailure(impl),
                            IF fail THEN <<Msg("items_failed", 0), Msg("empty", 0)>>
                                    ELSE <<Msg("empty", 0)>>)
                  /\ UNCHANGED jellyfin_items
             [] OTHER ->
                  /\ jellyfin_items' = its
                  /\ pc' = IF impl = "C" THEN "connect" ELSE "resolve"
                  /\ UNCHANGED <<ret, report>>
    /\ UNCHANGED <<impl, dry_run, libs, playlists, target, i, plex_items,
                   missing_items, matchedFrom, sectionsCalls, searchCalls,
                   createCalls>>

(***************************************************************************)
(* C only: the Plex account and server are opened after the items are      *)
(* fetched; their error leaves migrate_playlist.                           *)
(***************************************************************************)
ConnectPlex ==
    /\ pc = "connect"
    /\ \E ok \in BOOLEAN :
        IF ok THEN /\ pc' = "resolve"
                   /\ UNCHANGED <<ret, report, extError>>
              ELSE Finish("Exception", <<>>) /\ extError' = "connect"
    /\ UNCHANGED <<impl, dry_run, libs, playlists, target, jellyfin_items, i,
                   plex_items, missing_items, matchedFrom, itemFetches,
                   sectionsCalls, searchCalls, createCalls>>

LoopDoneLate(k, items) == k > Len(items) + 1

LoopDoneEarly(k, items) == k > 1 \/ k > Len(items)

\* "for item in jellyfin_items" has no item left: k is the next index
LoopDone(k, items) == k > Len(items)

AccumulateFront(seq, x) == <<x>> \o seq

\* plex_items.append(plex_item)
Accumulate(seq, x) == Append(seq, x)

\* entry of the unmatched list: A keeps the path of an item that was searched
Missing(im, k, fp) == [item |-> k, path |-> IF im = "A" THEN fp ELSE None]

\* A's warning for each section whose scan raised, from section l on, while
\* item k is resolved (B and C skip the section silently)
RECURSIVE SectionErrors(_, _, _, _)
SectionErrors(im, l, k, path) ==
    IF im # "A" \/ l > Len(libs) THEN <<>>
    ELSE IF libs[l].fails
      THEN <<[msg |-> "section_error", item |-> k, lib |-> l]>>
               \o SectionErrors(im, l + 1, k, path)
    ELSE IF MatchInLib(libs[l], path) # 0 THEN <<>>
    ELSE SectionErrors(im, l + 1, k, path)

(***************************************************************************)
(* One iteration of the loop over the source items: read the path, skip    *)
(* the item when it has none, otherwise list the libraries and search      *)
(* them.  sfail: library.sections() raises.  In A and C that error is      *)
(* raised outside every try and leaves migrate_playlist; B's               *)
(* find_media_by_path catches it and answers None.                         *)
(***************************************************************************)
ResolveItem ==
    /\ pc = "resolve"
    /\ i <= Len(jellyfin_items)
    /\ LET fp == FilePath(impl, jellyfin_items[i])
       IN  IF NoFilePath(fp)
             THEN /\ i' = i + 1
                  /\ missing_items' = IF impl = "C" THEN missing_items
                                      ELSE Append(missing_items, Missing(impl, i, None))
                  /\ report' = IF impl = "C" THEN report
                               ELSE Append(report, Msg("no_path", i))
                  /\ UNCHANGED <<pc, ret, plex_items, matchedFrom, sectionsCalls,
                                 searchCalls>>
             ELSE \E sfail \in BOOLEAN :
                  /\ sectionsCalls' = Append(sectionsCalls, i)
                  /\ IF sfail /\ impl # "B"
                       THEN /\ Finish("Exception", <<>>)
                            /\ UNCHANGED <<i, plex_items, missing_items, matchedFrom,
                                           searchCalls>>
                       ELSE LET r == IF sfail THEN NoItem ELSE FindFrom(1, fp)
                            IN  /\ i' = i + 1
                                /\ searchCalls' =
                                     IF sfail THEN searchCalls
                                     ELSE searchCalls \cup
                                          {<<i, l>> : l \in SearchedFrom(1, fp)}
                                /\ IF r # NoItem
                                     THEN /\ plex_items' = Accumulate(plex_items, r)
                                          /\ matchedFrom' = Append(matchedFrom, i)
                                          /\ report' = report \o
                                               SectionErrors(impl, 1, i, fp)
                                          /\ UNCHANGED missing_items
                                     ELSE /\ missing_items' =
                                               IF impl = "C" THEN missing_items
                                               ELSE Append(missing_items,
                                                           Missing(impl, i, fp))
                                          /\ report' = report \o
                                               (IF sfail THEN <<Msg("search_error", i)>>
                                                ELSE SectionErrors(impl, 1, i, fp)) \o
                                               <<Msg("not_found_in_plex", i)>>
                                          /\ UNCHANGED <<plex_items, matchedFrom>>
                                /\ UNCHANGED <<pc, ret>>
    /\ UNCHANGED <<impl, dry_run, libs, playlists, target, jellyfin_items,
                   itemFetches, createCalls, extError>>

NoMatchesNever(items) == FALSE

\* "if not plex_items": the empty-match gate
NoMatches(items) == items = <<>>

MissingListingNone == <<>>

\* the listing of the unmatched items (A lines 119-122, B lines 214-217)
MissingListing == IF missing_items # <<>>
                    THEN <<Msg("missing_list", Len(missing_items))>>
                    ELSE <<>>

(***************************************************************************)
(* After the loop: the report of the unmatched items, the empty-match gate *)
(* and, in A, the dry-run exit.                                            *)
(***************************************************************************)
Decide ==
    /\ pc = "resolve"
    /\ LoopDone(i, jellyfin_items)
    /\ CASE impl = "A" ->
              IF NoMatches(plex_items)
                THEN Finish("False", MissingListing \o <<Msg("no_matches", 0)>>)
                ELSE IF dry_run
                  THEN Finish("True", MissingListing \o
                                <<Msg("found_count", Len(plex_items)),
                                  Msg("dry_run_list", Len(plex_items))>>)
                  ELSE /\ pc' = "write"
                       /\ report' = report \o MissingListing \o
                                      <<Msg("found_count", Len(plex_items))>>
                       /\ UNCHANGED ret
         [] impl = "B" ->
              IF NoMatches(plex_items)
                THEN Finish("False", <<Msg("no_matches", 0)>>)
                ELSE /\ pc' = "write"
                     /\ report' = report \o <<Msg("found_count", Len(plex_items))>>
                                    \o MissingListing
                     /\ UNCHANGED ret
         [] impl = "C" ->
              IF NoMatches(plex_items)
                THEN Finish("SystemExit", <<Msg("no_matches", 0)>>)
                ELSE /\ pc' = "write"
                     /\ UNCHANGED <<ret, report>>
    /\ UNCHANGED <<impl, dry_run, libs, playlists, target, jellyfin_items, i,
                   plex_items, missing_items, matchedFrom, itemFetches,
                   sectionsCalls, searchCalls, createCalls, extError>>

IssueCreateRetry(calls, call) ==
    IF call.ok THEN Append(calls, call) ELSE Append(Append(calls, call), call)

\* the one createPlaylist request of the run
IssueCreate(calls, call) == Append(calls, call)

WriteResultPessimistic(im, ok) == IF im = "C" THEN "Exception" ELSE "False"

WriteResultOptimistic(im, ok) == IF im = "C" THEN "None" ELSE "True"

\* how migrate_playlist ends after the createPlaylist request: A and B
\* return its success, C returns normally or lets the error leave
WriteResult(im, ok) ==
    IF im = "C" THEN (IF ok THEN "None" ELSE "Exception")
                ELSE (IF ok THEN "True" ELSE "False")

\* name given to the destination playlist
CreatedName(im) ==
    CASE im = "A" -> [name |-> target, suffix |-> FALSE]
      [] im = "B" -> [name |-> target, suffix |-> TRUE]
      [] im = "C" -> [name |-> playlist_name, suffix |-> FALSE]

(***************************************************************************)
(* The write: one createPlaylist request with the accumulated items.       *)
(* ok: the destination accepts it.  B's create_playlist refuses an empty   *)
(* item list without a request.                                            *)
(***************************************************************************)
CreatePlaylist ==
    /\ pc = "write"
    /\ IF impl = "B" /\ plex_items = <<>>
         THEN /\ Finish("False", <<Msg("no_valid_items", 0), Msg("create_failed", 0)>>)
              /\ UNCHANGED createCalls
         ELSE \E ok \in BOOLEAN :
              /\ createCalls' = IssueCreate(createCalls,
                                   [name |-> CreatedName(impl),
                                    items |-> plex_items, ok |-> ok])
              /\ Finish(WriteResult(impl, ok),
                        IF ok THEN <<Msg("created", Len(plex_items))>>
                        ELSE IF impl = "C" THEN <<>>
                        ELSE <<Msg("create_failed", 0)>>)
    /\ UNCHANGED <<impl, dry_run, libs, playlists, target, jellyfin_items, i,
                   plex_items, missing_items, matchedFrom, itemFetches,
                   sectionsCalls, searchCalls, extError>>

Next ==
    \/ Authenticate
    \/ LookupPlaylists
    \/ SelectPlaylist
    \/ GetItems
    \/ ConnectPlex
    \/ ResolveItem
    \/ Decide
    \/ CreatePlaylist

Spec == Init /\ [][Next]_vars

\* the same run against libraries with several entries for a file
SpecMany == InitMany /\ [][Next]_vars

\* the same run against libraries with files close to the paths searched
SpecNear == InitNear /\ [][Next]_vars

\* the run is one sequential thread: as long as a statement is left to
\* execute, and every external call returns or raises, the next one executes
SpecFair == InitMany /\ [][Next]_vars /\ WF_vars(Next)

(***************************************************************************)
(* The process exit code each main derives from the end of the run.        *)
(***************************************************************************)
ExitCodeZero(im, r) == 0

ExitCode(im, r) ==
    CASE im = "A" -> IF r = "True" THEN 0 ELSE 1
      [] im = "B" -> IF r = "True" THEN 0 ELSE 1
      [] im = "C" -> IF r = "None" THEN 0 ELSE 1

(***************************************************************************)
(* Vocabulary of the properties.                                           *)
(***************************************************************************)
Range(f) == {f[k] : k \in DOMAIN f}

Done == pc = "done"

\* the run ended without a playlist and without a dry-run preview
Failed == Done /\ ret \in {"False", "SystemExit", "Exception", "Unauthorized"}

\* the report lists unmatched items
MissingListed == \E k \in DOMAIN report : report[k].msg = "missing_list"

Outcome ==
    IF ~Done THEN "Running"
    ELSE IF Failed THEN "Failure"
    ELSE IF MissingListed THEN "PartialSuccess"
    ELSE "Success"

\* the item's JSON carries no usable path
Absent(item) == item.shape \in {"noMS", "emptyMS", "noPathKey", "emptyPath"}

Least(S) == CHOOSE x \in S : \A y \in S : x <= y

\* the destination item the resolution rule assigns to a path: the first
\* entry holding the path, in the first library that does not raise and has one
ExpectedMatch(path) ==
    LET good == {l \in 1..Len(libs) :
                    /\ ~libs[l].fails
                    /\ \E e \in 1..Len(libs[l].entries) : path \in libs[l].entries[e]}
    IN  IF good = {} THEN NoItem
        ELSE [lib |-> Least(good),
              ent |-> Least({e \in 1..Len(libs[Least(good)].entries) :
                                path \in libs[Least(good)].entries[e]})]

\* source items that did not resolve
Unmatched == (1..Len(jellyfin_items)) \ Range(matchedFrom)

(***************************************************************************)
(* C1  Empty-match gate: as long as no source item has resolved to a       *)
(* destination item, no createPlaylist request has been issued, and a run  *)
(* that ends with no resolved item ends in Failure (all implementations).  *)
(***************************************************************************)
C1_EmptyMatchGate ==
    matchedFrom = <<>> =>
        /\ createCalls = <<>>
        /\ Done => (Outcome = "Failure" /\ ExitCode(impl, ret) # 0)

\* a run that resolved every item of a non-empty playlist, matched none, ended
C1_Witness ==
    /\ Done
    /\ jellyfin_items # <<>>
    /\ i > Len(jellyfin_items)
    /\ sectionsCalls # <<>>
    /\ matchedFrom = <<>>

(***************************************************************************)
(* C2  Dry-run purity (A): a run with dry_run issues no createPlaylist     *)
(* request, ends in Success when at least one item matched and in Failure  *)
(* when none matched.                                                      *)
(***************************************************************************)
C2_DryRunPurity ==
    (impl = "A" /\ dry_run) =>
        /\ createCalls = <<>>
        /\ Done => (IF matchedFrom # <<>> THEN Outcome # "Failure" /\ ret = "True"
                                          ELSE Outcome = "Failure")

\* the part of C2 that the code keeps: a dry run never writes, and a dry run
\* that reaches the end of the loop succeeds exactly when something matched
C2_DryRunNoWrite ==
    (impl = "A" /\ dry_run) =>
        /\ createCalls = <<>>
        /\ (Done /\ i > Len(jellyfin_items) /\ itemFetches = 1) =>
               (ret = "True" <=> matchedFrom # <<>>)

(***************************************************************************)
(* C3  Order preservation: the accumulated matched items are the resolved  *)
(* matches of the source items in source order (strictly increasing source *)
(* positions, each destination item the one its source path resolves to),  *)
(* and a createPlaylist request carries exactly that sequence.             *)
(***************************************************************************)
C3_OrderPreserved ==
    /\ Len(plex_items) = Len(matchedFrom)
    /\ \A k \in 1..Len(matchedFrom) :
          /\ matchedFrom[k] \in 1..Len(jellyfin_items)
          /\ jellyfin_items[matchedFrom[k]].shape = "path"
          /\ plex_items[k] = ExpectedMatch(jellyfin_items[matchedFrom[k]].path)
          /\ plex_items[k] # NoItem
    /\ \A k \in 1..Len(matchedFrom), m \in 1..Len(matchedFrom) :
          k < m => matchedFrom[k] < matchedFrom[m]
    /\ \A c \in DOMAIN createCalls : createCalls[c].items = plex_items

\* two source items resolved to two different destination items and were written
C3_Witness ==
    /\ Len(createCalls) = 1
    /\ Len(plex_items) = 2
    /\ plex_items[1] # plex_items[2]
    /\ plex_items[1].lib = 2

(***************************************************************************)
(* C4  No-path items are always unmatched: a source item without MediaSources,*)
(* with empty MediaSources, without Path key or with an empty Path is never*)
(* among the matched items, and neither a library listing nor a library    *)
(* search is issued for it.                                                *)
(***************************************************************************)
C4_NoPathUnmatched ==
    \A k \in 1..Len(jellyfin_items) :
        Absent(jellyfin_items[k]) =>
            /\ k \notin Range(matchedFrom)
            /\ k \notin Range(sectionsCalls)
            /\ \A l \in 1..Len(libs) : <<k, l>> \notin searchCalls

\* an item with an empty Path was passed over and a later item was searched
C4_Witness ==
    /\ Len(jellyfin_items) = 2
    /\ jellyfin_items[1].shape = "emptyPath"
    /\ i > 2
    /\ sectionsCalls = <<2>>
    /\ searchCalls # {}

CreateSucceeded == \E c \in DOMAIN createCalls : createCalls[c].ok

CreateFailed == \E c \in DOMAIN createCalls : ~createCalls[c].ok

C6_LibraryErrorTolerated ==
    \A k \in 1..Len(jellyfin_items), l \in 1..Len(libs) :
        (<<k, l>> \in searchCalls /\ libs[l].fails) =>
            /\ l < Len(libs) => <<k, l + 1>> \in searchCalls
            /\ i > k
            /\ LET want == ExpectedMatch(jellyfin_items[k].path)
               IN  want # NoItem =>
                      \E m \in DOMAIN matchedFrom :
                          matchedFrom[m] = k /\ plex_items[m] = want

\* library 1 raised, library 2 held the path, the item was matched there
C6_Witness ==
    /\ Len(libs) = 2
    /\ libs[1].fails
    /\ <<1, 1>> \in searchCalls
    /\ matchedFrom = <<1>>
    /\ plex_items = <<[lib |-> 2, ent |-> 1]>>
    /\ Done
    /\ CreateSucceeded

\* the named playlist is in the list, ignoring case
NameInList == \E k \in DOMAIN playlists : Lower(playlists[k]) = Lower(playlist_name)

NothingProcessed ==
    /\ itemFetches = 0
    /\ jellyfin_items = <<>>
    /\ sectionsCalls = <<>>
    /\ searchCalls = {}
    /\ createCalls = <<>>
    /\ plex_items = <<>>

(***************************************************************************)
(* C7 as stated: whenever the list answered by the source does not hold    *)
(* the named playlist, the run ends at once in Failure with no item        *)
(* fetched, no destination search and no createPlaylist request.           *)
(***************************************************************************)
C7_NotFoundIsFatal ==
    [][(pc = "select" /\ ~NameInList) =>
          (Done' /\ Failed' /\ NothingProcessed' /\ ExitCode(impl, ret)' # 0)]_vars

(***************************************************************************)
(* C7 as amended: the run ends at once in Failure with nothing processed   *)
(* when the named playlist is absent and, for B, the search answered no    *)
(* playlist at all; a run that has ended takes no further step.  (B takes  *)
(* the first result of a non-empty answer without the name.)               *)
(***************************************************************************)
C7_NotFoundIsFatalAmended ==
    /\ [][(pc = "select" /\ ~NameInList /\ (impl = "B" => playlists = <<>>)) =>
            (Done' /\ Failed' /\ NothingProcessed' /\ ExitCode(impl, ret)' # 0)]_vars
    /\ [][~Done]_vars

\* a run ended on the not-found exit
C7_Witness ==
    /\ Done
    /\ \E k \in DOMAIN report : report[k].msg \in {"not_found", "no_playlist"}
    /\ Failed
    /\ NothingProcessed

(***************************************************************************)
(* C8  No automatic retry of creation: a run issues at most one            *)
(* createPlaylist request, also when that request fails.                   *)
(***************************************************************************)
C8_NoCreateRetry ==
    /\ Len(createCalls) <= 1
    /\ CreateFailed => (Done /\ Len(createCalls) = 1)

\* the one request of a run failed
C8_Witness ==
    /\ Done
    /\ Len(createCalls) = 1
    /\ ~createCalls[1].ok

(***************************************************************************)
(* C9  Write failure is a Failure outcome: when the createPlaylist request *)
(* raises, the run has ended in Failure (False returned, or the error left *)
(* migrate_playlist) and the process exits non-zero, however many items    *)
(* matched.                                                                *)
(***************************************************************************)
C9_WriteFailureFails ==
    CreateFailed =>
        /\ Done
        /\ Outcome = "Failure"
        /\ ret \in {"False", "Exception"}
        /\ ExitCode(impl, ret) # 0

\* the request failed in a run that had matched two items
C9_Witness ==
    /\ CreateFailed
    /\ Len(plex_items) = 2
    /\ Done

(***************************************************************************)
(* C10  Per-item errors never abort the run: once the resolution of an     *)
(* item has reached the destination, the run only ends after every source  *)
(* item went through resolution, and each item for which the library       *)
(* listing was requested is then recorded as matched or (A, B) unmatched.  *)
(***************************************************************************)
C10_ItemErrorsNeverAbort ==
    (Done /\ sectionsCalls # <<>>) =>
        /\ i > Len(jellyfin_items)
        /\ \A k \in Range(sectionsCalls) :
              \/ k \in Range(matchedFrom)
              \/ impl = "C"
              \/ \E m \in DOMAIN missing_items : missing_items[m].item = k

\* every destination library raises when it is searched
AllRaised == libs # <<>> /\ \A l \in 1..Len(libs) : libs[l].fails

\* source items whose libraries were searched and that resolved to nothing
SearchedUnmatched ==
    {k \in 1..(i - 1) : /\ k \notin Range(matchedFrom)
                        /\ \E l \in 1..Len(libs) : <<k, l>> \in searchCalls}

\* the report tells that every library raised while item k was searched
LookupErrorShown(k) ==
    /\ libs # <<>>
    /\ \A l \in 1..Len(libs) :
         \E n \in DOMAIN report :
            report[n] = [msg |-> "section_error", item |-> k, lib |-> l]

(***************************************************************************)
(* C11  Unmatched reasons are distinguished (A and B): for a source item   *)
(* with a path whose libraries were searched and gave no match, what the   *)
(* run shows about the item tells whether every library search raised      *)
(* (LookupError) or at least one completed without an entry                *)
(* (NotFoundInDestination).                                                *)
(***************************************************************************)
C11_UnmatchedReasonsDistinguished ==
    impl \in {"A", "B"} =>
        \A k \in SearchedUnmatched : AllRaised <=> LookupErrorShown(k)

\* the loop over the source items has run to its end
ResolutionEnded == pc \in {"resolve", "write", "done"} /\ i > Len(jellyfin_items)

\* the report carries a line about source item k being unmatched
ReportedUnmatched(k) ==
    \E n \in DOMAIN report :
        report[n] \in {Msg("no_path", k), Msg("not_found_in_plex", k)}

(***************************************************************************)
(* C12  Complete accounting of source items (all implementations): once    *)
(* the loop over the source items has ended, the matched list and the      *)
(* unmatched list together hold as many entries as there are source items, *)
(* every source item that is not matched is in the unmatched list, and     *)
(* when the run has ended every unmatched item, with or without a path,    *)
(* has been reported, also when the run ended in Failure.                  *)
(***************************************************************************)
C12_CompleteAccounting ==
    ResolutionEnded =>
        /\ Len(plex_items) + Len(missing_items) = Len(jellyfin_items)
        /\ \A k \in Unmatched : \E m \in DOMAIN missing_items : missing_items[m].item = k
        /\ Done => \A k \in Unmatched : ReportedUnmatched(k)

\* positions of the list whose name is the requested name ignoring case
CIHits == {k \in DOMAIN playlists : Lower(playlists[k]) = Lower(playlist_name)}

(***************************************************************************)
(* C13  Exact name match is preferred and case-insensitive (all            *)
(* implementations): when the list returned by the source catalog holds a  *)
(* playlist whose name equals the requested name ignoring case, the        *)
(* selection takes the first such playlist of the list.                    *)
(***************************************************************************)
C13_ExactMatchPreferred ==
    [][pc = "select" /\ CIHits # {} => target' = playlists[Least(CIHits)]]_vars

\* the fallback messages of the report
Fallbacks == {n \in DOMAIN report : report[n].msg = "fallback"}

(***************************************************************************)
(* C14  First-result fallback is deterministic and never silent (B): when  *)
(* the search result is not empty and holds no name equal to the requested *)
(* name ignoring case, the selection takes the first result and adds to    *)
(* the report a fallback message naming it, at a point where no item has   *)
(* been fetched or resolved; no other step of the run, and no selection    *)
(* from a list that holds such a name, adds a fallback message.            *)
(***************************************************************************)
C14_FallbackNeverSilent ==
    [][impl = "B" =>
         IF pc = "select" /\ playlists # <<>> /\ CIHits = {}
           THEN /\ target' = playlists[1]
                /\ report' = Append(report, [msg |-> "fallback", item |-> 0,
                                             name |-> playlists[1]])
                /\ i' = 1
                /\ NothingProcessed'
           ELSE Fallbacks' = Fallbacks]_vars

C14_Witness ==
    /\ impl = "B"
    /\ target = "b"
    /\ \E n \in Fallbacks : report[n].name = "b"
    /\ Done
    /\ CreateSucceeded

\* the report carries a line about an error of a request
TransportErrorShown ==
    \E n \in DOMAIN report : report[n].msg \in {"search_failed", "main_error", "traceback"}

\* the report carries the line saying that no playlist has the name
NotFoundShown ==
    \E n \in DOMAIN report : report[n].msg \in {"not_found", "no_playlist"}

(***************************************************************************)
(* C15  Not-found is reported distinctly from transport errors: the report *)
(* of a run whose source playlist lookup raised a transport error carries  *)
(* a line about that error; the report of a run whose lookup succeeded and *)
(* that ended because no playlist was selected carries the not-found line  *)
(* and no line about an error.  The two reports differ.                    *)
(***************************************************************************)
C15_NotFoundDistinct ==
    /\ Done /\ extError = "lookup" => TransportErrorShown
    /\ Done /\ extError = "none" /\ target = NoPlaylist =>
           NotFoundShown /\ ~TransportErrorShown

C15_Witness ==
    /\ impl = "B"
    /\ Done
    /\ extError = "lookup"
    /\ report = <<Msg("search_failed", 0), Msg("no_playlist", 0)>>

(***************************************************************************)
(* C16  Source read failure is fatal for the whole run: once the request   *)
(* that lists the source playlists or the request that fetches the items   *)
(* of the playlist has failed, the run can only end, its end is a Failure  *)
(* with a non-zero exit code, and no source item has been resolved, no     *)
(* destination library has been listed or searched and no createPlaylist   *)
(* request has been issued.                                                *)
(***************************************************************************)
C16_SourceReadFailureFatal ==
    extError \in {"lookup", "items"} =>
        /\ pc \in {"select", "done"}
        /\ pc = "select" => playlists = <<>>
        /\ Done => Failed /\ ExitCode(impl, ret) # 0
        /\ i = 1
        /\ jellyfin_items = <<>>
        /\ plex_items = <<>>
        /\ missing_items = <<>>
        /\ sectionsCalls = <<>>
        /\ searchCalls = {}
        /\ createCalls = <<>>

C16_Witness ==
    /\ impl = "A"
    /\ extError = "items"
    /\ target = "a"
    /\ Done
    /\ ret = "Exception"

\* playlists the run has added to the destination: a createPlaylist request
\* that fails adds nothing
AddedPlaylists == {c \in DOMAIN createCalls : createCalls[c].ok}

(***************************************************************************)
(* C17  Idempotent on failure: a run that ended in Failure has added no    *)
(* playlist to the destination; a run that is not a dry run and ended in   *)
(* Success or PartialSuccess has added exactly one.                        *)
(***************************************************************************)
C17_IdempotentOnFailure ==
    /\ Outcome = "Failure" => AddedPlaylists = {}
    /\ Outcome \in {"Success", "PartialSuccess"} /\ ~dry_run =>
           Cardinality(AddedPlaylists) = 1

C17_Witness ==
    /\ Outcome = "Failure"
    /\ createCalls # <<>>
    /\ plex_items # <<>>
    /\ AddedPlaylists = {}

\* source items resolved against the library list: the listing was answered
\* and every library up to the first hit was searched
ResolvedItems ==
    {k \in 1..(i - 1) : /\ k \in Range(sectionsCalls)
                        /\ \A n \in DOMAIN report : report[n] # Msg("search_error", k)}

\* what the resolution of source item k returned
ResultOf(k) ==
    IF k \in Range(matchedFrom)
      THEN plex_items[CHOOSE m \in DOMAIN matchedFrom : matchedFrom[m] = k]
      ELSE NoItem

\* the libraries searched for source item k
SearchedFor(k) == {l \in 1..Len(libs) : <<k, l>> \in searchCalls}

SameResolution ==
    \A k1 \in ResolvedItems, k2 \in ResolvedItems :
        FilePath(impl, jellyfin_items[k1]) = FilePath(impl, jellyfin_items[k2]) =>
            /\ ResultOf(k1) = ResultOf(k2)
            /\ SearchedFor(k1) = SearchedFor(k2)

\* a step of the loop leaves the snapshot alone, issues no createPlaylist and
\* keeps what the lists hold, adding at most the result of its item
ResolutionFrame ==
    pc = "resolve" /\ i <= Len(jellyfin_items) =>
        /\ libs' = libs
        /\ createCalls' = createCalls
        /\ SubSeq(plex_items', 1, Len(plex_items)) = plex_items
        /\ SubSeq(missing_items', 1, Len(missing_items)) = missing_items
        /\ Len(plex_items') + Len(missing_items')
              <= Len(plex_items) + Len(missing_items) + 1

C19_FirstLibraryWins ==
    \A m \in DOMAIN matchedFrom :
        LET k == matchedFrom[m]
            fp == FilePath(impl, jellyfin_items[k])
            r == plex_items[m]
            Holds(l) == /\ ~libs[l].fails
                        /\ \E e \in DOMAIN libs[l].entries : fp \in libs[l].entries[e]
        IN  /\ r.lib \in 1..Len(libs)
            /\ Holds(r.lib)
            /\ r.ent \in DOMAIN libs[r.lib].entries
            /\ fp \in libs[r.lib].entries[r.ent]
            /\ \A e \in 1..(r.ent - 1) : fp \notin libs[r.lib].entries[e]
            /\ \A l \in 1..(r.lib - 1) : ~Holds(l)
            /\ \A l \in 1..Len(libs) : <<k, l>> \in searchCalls <=> l <= r.lib

C19_Witness ==
    /\ Len(libs) = 2
    /\ matchedFrom = <<1, 2>>
    /\ plex_items = <<[lib |-> 1, ent |-> 2], [lib |-> 1, ent |-> 1]>>
    /\ \E e \in 3..Len(libs[1].entries) :
          FilePath(impl, jellyfin_items[1]) \in libs[1].entries[e]
    /\ \E e \in DOMAIN libs[2].entries :
          FilePath(impl, jellyfin_items[1]) \in libs[2].entries[e]
    /\ searchCalls = {<<1, 1>>, <<2, 1>>}

(***************************************************************************)
(* C20  The destination library list is fetched once per run: in any run   *)
(* the library listing, library.sections(), is requested at most once.     *)
(***************************************************************************)
C20_SnapshotFetchedOnce == Len(sectionsCalls) <= 1

(***************************************************************************)
(* C21  Authentication failure is fatal before item processing: once the   *)
(* session with the source or with the destination could not be opened,    *)
(* the run has ended in Failure with a non-zero exit code, no source item  *)
(* has been resolved or classified, no destination library has been listed *)
(* or searched and no createPlaylist request has been issued.              *)
(***************************************************************************)
C21_AuthFailureFatal ==
    extError \in {"auth", "connect"} =>
        /\ Done
        /\ Failed
        /\ ExitCode(impl, ret) # 0
        /\ i = 1
        /\ plex_items = <<>>
        /\ missing_items = <<>>
        /\ matchedFrom = <<>>
        /\ sectionsCalls = <<>>
        /\ searchCalls = {}
        /\ createCalls = <<>>

C21_Witness ==
    /\ impl = "B"
    /\ extError = "auth"
    /\ Done
    /\ ret = "SystemExit"
    /\ report = <<Msg("dest_auth_failed", 0)>>

\* what the run achieved: a playlist was created, or a dry run went through
\* the whole playlist and found at least one match
Achieved ==
    \/ CreateSucceeded
    \/ dry_run /\ i > Len(jellyfin_items) /\ plex_items # <<>>

(***************************************************************************)
(* C22  Exit code reflects the outcome (all entry points): a run that has  *)
(* ended exits with code 0 exactly when a playlist was created or a dry    *)
(* run found at least one match, that is when its outcome is Success or    *)
(* PartialSuccess, and with a non-zero code when its outcome is Failure.   *)
(***************************************************************************)
C22_ExitCodeReflectsOutcome ==
    Done =>
        /\ ExitCode(impl, ret) = 0 <=> Achieved
        /\ ExitCode(impl, ret) = 0 <=> Outcome \in {"Success", "PartialSuccess"}
        /\ ExitCode(impl, ret) # 0 <=> Outcome = "Failure"

C22_Witness ==
    /\ impl = "A"
    /\ dry_run
    /\ Done
    /\ Outcome = "PartialSuccess"
    /\ ExitCode(impl, ret) = 0
    /\ createCalls = <<>>

\* the report shows the source playlist data and the request to confirm
ConfirmationAsked ==
    \E n \in DOMAIN report, m \in DOMAIN report :
        /\ n < m
        /\ report[n].msg = "jellyfin_playlist_data"
        /\ report[m].msg = "confirm_prompt"

(***************************************************************************)
(* C23  User confirmation gates the destination (B): the run has listed or *)
(* searched no destination library and issued no createPlaylist request    *)
(* unless it has displayed the source playlist data and asked the user to  *)
(* confirm before.                                                         *)
(***************************************************************************)
C23_ConfirmationGate ==
    impl = "B" /\ (sectionsCalls # <<>> \/ searchCalls # {} \/ createCalls # <<>>)
        => ConfirmationAsked

WriteAfterResolution ==
    createCalls # <<>> =>
        /\ Len(createCalls) = 1
        /\ itemFetches = 1
        /\ jellyfin_items # <<>>
        /\ i = Len(jellyfin_items) + 1
        /\ \A k \in 1..Len(jellyfin_items) :
              \/ k \in Range(matchedFrom)
              \/ impl = "C"
              \/ \E m \in DOMAIN missing_items : missing_items[m].item = k

WriteOrder ==
    /\ createCalls # <<>> => /\ searchCalls' = searchCalls
                             /\ sectionsCalls' = sectionsCalls
                             /\ createCalls' = createCalls
    /\ createCalls' # createCalls => pc = "write"
    /\ pc' = "write" /\ pc # "write" =>
          pc = "resolve" /\ i > Len(jellyfin_items) /\ plex_items # <<>>

(***************************************************************************)
(* C24  Resolution completes before the write: when a createPlaylist       *)
(* request has been issued it is the only one, the items were fetched and  *)
(* every source item has been matched or passed over as unmatched; after   *)
(* the request no library is listed or searched; the write is entered only *)
(* from the end of the loop over the items, never from the source reads.   *)
(***************************************************************************)
C24_ResolutionBeforeWrite == []WriteAfterResolution /\ [][WriteOrder]_vars

C24_Witness ==
    /\ createCalls # <<>>
    /\ Len(jellyfin_items) = 2
    /\ matchedFrom = <<2>>
    /\ Len(missing_items) = 1
    /\ searchCalls # {}

\* some entry of some library has a part whose file is the path of item k
HeldSomewhere(k) ==
    \E l \in 1..Len(libs) : \E e \in DOMAIN libs[l].entries :
        FilePath(impl, jellyfin_items[k]) \in libs[l].entries[e]

(***************************************************************************)
(* C25  Exact path-string equality (A): a destination item matched to a    *)
(* source item has a part whose file is exactly the item's path, and when  *)
(* no library raises, a source item with a path is matched if and only if  *)
(* some entry of some library has such a part.                             *)
(***************************************************************************)
C25_ExactPathEquality ==
    impl = "A" =>
        /\ \A m \in DOMAIN matchedFrom :
              FilePath(impl, jellyfin_items[matchedFrom[m]])
                  \in libs[plex_items[m].lib].entries[plex_items[m].ent]
        /\ (\A l \in 1..Len(libs) : ~libs[l].fails) =>
              \A k \in ResolvedItems : k \in Range(matchedFrom) <=> HeldSomewhere(k)

C25_Witness ==
    /\ impl = "A"
    /\ Len(libs) = 2
    /\ ~libs[1].fails
    /\ libs[1].entries = <<{"p1x", "xp1"}, {"P1"}>>
    /\ ResolvedItems = {1, 2}
    /\ matchedFrom = <<1>>
    /\ plex_items = <<[lib |-> 2, ent |-> 2]>>
    /\ FilePath(impl, jellyfin_items[1]) = "p1"
    /\ FilePath(impl, jellyfin_items[2]) = "p2"

\* a run that has ended has one outcome and makes no further request
DoneIsFinal ==
    Done => /\ Done'
            /\ ret' = ret
            /\ itemFetches' = itemFetches
            /\ sectionsCalls' = sectionsCalls
            /\ searchCalls' = searchCalls
            /\ createCalls' = createCalls

(***************************************************************************)
(* C26  Every run terminates: when every external call returns or raises,  *)
(* the run eventually reaches its end; at its end it has exactly one       *)
(* outcome (Success, PartialSuccess or Failure), which never changes, and  *)
(* it issues no further source or destination request.                     *)
(***************************************************************************)
C26_EveryRunTerminates ==
    /\ <>Done
    /\ [](Done => ret # "running" /\ Outcome \in {"Success", "PartialSuccess", "Failure"})
    /\ [][DoneIsFinal]_vars

C26_Witness ==
    /\ Done
    /\ Len(jellyfin_items) = 2
    /\ i = 3
    /\ Cardinality(searchCalls) = 4
    /\ Len(createCalls) = 1

====
